---- MODULE Spec2Model ----
(***************************************************************************)
(* Model of muxing.c: a poll loop that reads pre-encoded H.264 and AAC     *)
(* access units from two numbered file stores and hands them, stamped with *)
(* wall-clock elapsed time, to libavformat's interleaving MP4 writer.      *)
(*                                                                         *)
(* One action per step of main(); write_video_frame and write_audio_frame  *)
(* are each one action.  The environment adds files to the two stores and  *)
(* advances the wall clock.  Values the C code reads without having set    *)
(* them (the video function's `ret`, the bytes of `buf` past the bytes     *)
(* read) are chosen nondeterministically.                                  *)
(***************************************************************************)
EXTENDS Integers, Sequences, FiniteSets, TLC

(* ---- bounds of the model ---- *)
MaxUnits == 2          \* file indices 0..MaxUnits-1 may exist in each store
MaxClock == 3          \* the wall clock takes the values StartClock..MaxClock
BufWindow == 6         \* the prefix of the read buffer the model keeps

(* ---- program constants ---- *)
AV_PKT_FLAG_KEY == 1   \* libavcodec: packet flag of a key frame
NalMask == 15          \* 0x0f, line 307
NalSps == 7            \* 0x7, line 309
StartClock == 1        \* the wall clock's reading when the process starts
BufSize == 51200       \* char buf[1024*50], lines 220 and 283
Killed == 139          \* status of a process ended by a signal (128 + SIGSEGV)

Absent == <<-1>>       \* a file name that fopen() cannot open
NoPkt == [op |-> "none"]   \* no packet has been handed to the muxer yet

(* Access units the environment may drop into the stores: byte sequences. *)
VideoUnits ==
    { <<>>,                        \* an empty file
      <<0, 0, 0, 1>>,              \* a bare start code: shorter than 5 bytes
      <<0, 0, 0, 1, 103>>,         \* 0x67: sequence parameter set
      <<0, 0, 0, 1, 101, 136>>,    \* 0x65: IDR slice
      <<0, 0, 0, 1, 23>> }         \* 0x17: low nibble 7, bit 4 set
AudioUnits ==
    { <<>>,
      <<255, 241>>,
      <<255, 241, 80, 128, 7>> }

(* What the bytes of the stack buffer hold before fread() fills it. *)
StaleBytes == {0, 103}

VARIABLES
    pc,                  \* position in main()
    status,              \* exit status of the process, -1 while it runs
    nb_streams,          \* oc->nb_streams
    video_st, audio_st,  \* st->index of each OutputStream, -1 before add_stream
    pb_open,             \* oc->pb is an open file
    begin_timestamp_us,  \* the global anchor
    anchor_sets,         \* history: number of assignments to the anchor
    encode_video, encode_audio,
    pts,                 \* static counter of write_video_frame
    audio_frame,         \* static counter of write_audio_frame
    now,                 \* wall clock (gettimeofday)
    vstore, astore,      \* the files of avc_raw/ and aac_raw/ not yet read
    sink,                \* history: the calls made on the muxer, in order
    sent,                \* history: the last packet handed to the muxer
    lastpts,             \* history: pts of each stream's last packet
    failed,              \* history: the library calls that returned an error
    reported,            \* history: the streams whose pull has found no file
    vpolls, apolls,      \* history: calls of write_video_frame / write_audio_frame
    last                 \* history: what the last pull of each stream did

vars == << pc, status, nb_streams, video_st, audio_st, pb_open,
           begin_timestamp_us, anchor_sets, encode_video, encode_audio,
           pts, audio_frame, now, vstore, astore, sink, sent, lastpts, failed, reported,
           vpolls, apolls, last >>

progVars == << pc, status, nb_streams, video_st, audio_st, pb_open,
               begin_timestamp_us, anchor_sets, encode_video, encode_audio,
               pts, audio_frame, sink, sent, lastpts, failed, reported, vpolls, apolls,
               last >>

Indices == 0 .. (MaxUnits - 1)

(* A store maps the indices of the files that exist, and that the program
   has not read yet, to their bytes.  A file the program has read is never
   opened again (the counter only grows), so the model drops it. *)
NoFiles == [i \in {} |-> Absent]

(* fopen(): the file of index i, or Absent. *)
Lookup(store, i) == IF i \in DOMAIN store THEN store[i] ELSE Absent

(* the store once the file of index i has been read *)
Consumed(store, i) == [j \in (DOMAIN store) \ {i} |-> store[j]]

(* fread(buf, 1, len, f) into a buffer whose bytes all held `stale`. *)
Fread(u, stale) ==
    [ i \in 1 .. BufWindow |-> IF i <= Len(u) THEN u[i] ELSE stale ]

(* The number of bytes fread(buf, 1, len, f) stores from buf[0] on: the
   file u holds len bytes and nothing compares len with sizeof buf. *)
FreadCount(u) == Len(u)

(* How fread() can end.  Storing past the end of buf is undefined: the
   process is killed (stack protector, fault), or the call returns with the
   stack beyond buf overwritten and the function goes on as written. *)
FreadOutcomes(u) ==
    IF FreadCount(u) <= BufSize THEN {"returns"} ELSE {"returns", "killed"}

(* pkt.data = buf; pkt.size = len: the bytes the muxer is given, as far as
   the model keeps the buffer. *)
PktBytes(buf, size) == SubSeq(buf, 1, IF size <= BufWindow THEN size ELSE BufWindow)

(* buf[4] & 0x0f *)
NalType(buf) == buf[5] % (NalMask + 1)

(* pkt.flags after lines 307-314 *)
VideoFlags(buf) == IF NalType(buf) = NalSps THEN AV_PKT_FLAG_KEY ELSE 0

(* the subtraction the other way round *)
ElapsedSwapped(t, anchor) == anchor - t

(* gettimeofday() minus the anchor, lines 238 and 274.  The C arithmetic is
   on uint64_t; the clock is never behind the anchor taken from it, so the
   difference does not wrap. *)
Elapsed(t, anchor) == t - anchor

(* the process as main() is entered *)
ProcessStart ==
    /\ pc = "main"
    /\ status = -1
    /\ nb_streams = 0
    /\ video_st = -1
    /\ audio_st = -1
    /\ pb_open = FALSE
    /\ begin_timestamp_us = 0
    /\ anchor_sets = 0
    /\ encode_video = 0
    /\ encode_audio = 0
    /\ pts = 0
    /\ audio_frame = 0
    /\ now = StartClock
    /\ sink = <<>>
    /\ sent = NoPkt
    /\ lastpts = [video |-> 0, audio |-> 0]
    /\ failed = {}
    /\ reported = {}
    /\ vpolls = 0
    /\ apolls = 0
    /\ last = [video |-> [res |-> "none", seq |-> 0],
                audio |-> [res |-> "none", seq |-> 0]]

(* the process starts on two empty directories *)
Init ==
    /\ ProcessStart
    /\ vstore = NoFiles
    /\ astore = NoFiles


(* the test with the wrong sign: an error code is let through *)
FatalPositive(ret) == ret > 0

(* if (ret < 0): the test made on the result of a library call *)
Fatal(ret) == ret < 0

(* the counter moves by two on a pull that found its file *)
AfterPullSkip(counter, u) == IF u = Absent THEN counter ELSE counter + 2

(* the counter moves on every pull, with or without a file *)
AfterPullAlways(counter, u) == counter + 1

(* the counter after a pull that looked for the file u: `pts++` and
   `audio_frame++` come after the `return 1` of a file not found *)
AfterPull(counter, u) == IF u = Absent THEN counter ELSE counter + 1

(* exit(code) and `return code` from main *)
Exit(code) ==
    /\ pc' = "exit"
    /\ status' = code

(* lines 355-364: the usage message *)
CheckArgs ==
    /\ pc = "main"
    /\ \E argc \in {1, 2} :
          IF argc < 2 THEN Exit(1) ELSE pc' = "alloc" /\ status' = status
    /\ UNCHANGED << nb_streams, video_st, audio_st, pb_open, begin_timestamp_us,
                    anchor_sets, encode_video, encode_audio, pts, audio_frame,
                    now, vstore, astore, sink, sent, lastpts, failed, reported,
                    vpolls, apolls, last >>

(* lines 371-382: avformat_alloc_output_context2 with the MP4 muxer *)
AllocContext ==
    /\ pc = "alloc"
    /\ \E oc \in {"null", "ok"} :
          IF oc = "null" THEN Exit(1) ELSE pc' = "add_video" /\ status' = status
    /\ UNCHANGED << nb_streams, video_st, audio_st, pb_open, begin_timestamp_us,
                    anchor_sets, encode_video, encode_audio, pts, audio_frame,
                    now, vstore, astore, sink, sent, lastpts, failed, reported,
                    vpolls, apolls, last >>

(* avformat_new_stream: the new stream's index is the number of streams
   the context had. *)
NewStreamIndex(n) == n

(* lines 386-389 and add_stream: the video stream *)
AddVideoStream ==
    /\ pc = "add_video"
    /\ \E st \in {"null", "ok"} :
          IF st = "null"
          THEN /\ Exit(1)
               /\ UNCHANGED << nb_streams, video_st, encode_video >>
          ELSE /\ video_st' = NewStreamIndex(nb_streams)
               /\ nb_streams' = nb_streams + 1
               /\ encode_video' = 1
               /\ pc' = "add_audio"
               /\ status' = status
    /\ UNCHANGED << audio_st, pb_open, begin_timestamp_us, anchor_sets,
                    encode_audio, pts, audio_frame, now, vstore, astore,
                    sink, sent, lastpts, failed, reported, vpolls, apolls, last >>

(* lines 390-393 and add_stream: the audio stream *)
AddAudioStream ==
    /\ pc = "add_audio"
    /\ \E st \in {"null", "ok"} :
          IF st = "null"
          THEN /\ Exit(1)
               /\ UNCHANGED << nb_streams, audio_st, encode_audio >>
          ELSE /\ audio_st' = NewStreamIndex(nb_streams)
               /\ nb_streams' = nb_streams + 1
               /\ encode_audio' = 1
               /\ pc' = "avio_open"
               /\ status' = status
    /\ UNCHANGED << video_st, pb_open, begin_timestamp_us, anchor_sets,
                    encode_video, pts, audio_frame, now, vstore, astore,
                    sink, sent, lastpts, failed, reported, vpolls, apolls, last >>

(* lines 397-405: avio_open *)
AvioOpen ==
    /\ pc = "avio_open"
    /\ \E ret \in {-1, 0} :
          /\ failed' = IF ret < 0 THEN failed \cup {"open"} ELSE failed
          /\ IF Fatal(ret)
             THEN Exit(1) /\ pb_open' = pb_open
             ELSE pc' = "write_header" /\ status' = status /\ pb_open' = (ret >= 0)
    /\ UNCHANGED << nb_streams, video_st, audio_st, begin_timestamp_us,
                    anchor_sets, encode_video, encode_audio, pts, audio_frame,
                    now, vstore, astore, sink, sent, lastpts, reported,
                    vpolls, apolls, last >>

(* lines 407-413: avformat_write_header *)
WriteHeader ==
    /\ pc = "write_header"
    /\ \E ret \in {-1, 0} :
          /\ sink' = Append(sink, "header")
          /\ failed' = IF ret < 0 THEN failed \cup {"header"} ELSE failed
          /\ IF Fatal(ret) THEN Exit(1) ELSE pc' = "anchor" /\ status' = status
    /\ UNCHANGED << nb_streams, video_st, audio_st, pb_open, begin_timestamp_us,
                    anchor_sets, encode_video, encode_audio, pts, audio_frame,
                    now, vstore, astore, sent, lastpts, reported, vpolls, apolls,
                    last >>

(* lines 415-417: the anchor is the wall clock's reading *)
SetAnchor ==
    /\ pc = "anchor"
    /\ begin_timestamp_us' = now
    /\ anchor_sets' = anchor_sets + 1
    /\ pc' = "loop"
    /\ UNCHANGED << status, nb_streams, video_st, audio_st, pb_open,
                    encode_video, encode_audio, pts, audio_frame,
                    now, vstore, astore, sink, sent, lastpts, failed, reported,
                    vpolls, apolls, last >>

(* the loop goes on only while both streams produce *)
LoopCondBoth(ev, ea) == ev # 0 /\ ea # 0

(* line 419: while (encode_video || encode_audio) *)
LoopCond(ev, ea) == ev # 0 \/ ea # 0

(* the loop test that goes straight to the streams still marked as producing *)
LoopTestSkipFinished ==
    /\ pc = "loop"
    /\ pc' = IF encode_video # 0 THEN "video"
             ELSE IF encode_audio # 0 THEN "audio" ELSE "trailer"
    /\ UNCHANGED << status, nb_streams, video_st, audio_st, pb_open,
                    begin_timestamp_us, anchor_sets, encode_video, encode_audio,
                    pts, audio_frame, now, vstore, astore, sink, sent, lastpts,
                    failed, reported, vpolls, apolls, last >>

LoopTest ==
    /\ pc = "loop"
    /\ pc' = IF LoopCond(encode_video, encode_audio) THEN "video" ELSE "trailer"
    /\ UNCHANGED << status, nb_streams, video_st, audio_st, pb_open,
                    begin_timestamp_us, anchor_sets, encode_video, encode_audio,
                    pts, audio_frame, now, vstore, astore, sink, sent, lastpts,
                    failed, reported, vpolls, apolls, last >>


(* if (f) ... else return 1: fopen() found the file *)
Opened(u) == u # Absent

(* every packet tagged with the first stream's index *)
WriteFrameFirstStream(st_index, pkt) == [pkt EXCEPT !.stream_index = 0]

(* write_frame, lines 71-80: tags the packet with the stream's index and
   passes it to av_interleaved_write_frame *)
WriteFrame(st_index, pkt) == [pkt EXCEPT !.stream_index = st_index]

(* the decode timestamp left as av_init_packet set it up *)
VideoPacketNoDts(u, stale, ts, st_index) ==
    LET buf == Fread(u, stale)
        len == Len(u)
    IN  [ op           |-> "packet",
          flags        |-> IF buf[5] % 16 = 7 THEN 1 ELSE 0,
          stream_index |-> st_index,
          data         |-> SubSeq(buf, 1, len),
          size         |-> len,
          pts          |-> ts,
          dts          |-> 0 ]

(* lines 283-321: the packet write_video_frame builds from the file u *)
VideoPacket(u, stale, ts, st_index) ==
    LET buf == Fread(u, stale)
        len == Len(u)
    IN  [ op           |-> "packet",
          flags        |-> VideoFlags(buf),
          stream_index |-> st_index,
          data         |-> PktBytes(buf, len),
          size         |-> len,
          pts          |-> ts,
          dts          |-> ts ]

(* the audio timestamp taken from a sample count that starts at 0, as in
   the commented-out line 239 *)
AudioPacketSampleClock(u, stale, ts, st_index) ==
    LET buf == Fread(u, stale)
        len == Len(u)
    IN  [ op           |-> "packet",
          flags        |-> 0,
          stream_index |-> st_index,
          pts          |-> 0,
          dts          |-> 0,
          size         |-> len,
          data         |-> SubSeq(buf, 1, len) ]

(* lines 220-246: the packet write_audio_frame builds from the file u *)
AudioPacket(u, stale, ts, st_index) ==
    LET buf == Fread(u, stale)
        len == Len(u)
    IN  [ op           |-> "packet",
          flags        |-> 0,
          stream_index |-> st_index,
          pts          |-> ts,
          dts          |-> ts,
          size         |-> len,
          data         |-> PktBytes(buf, len) ]

(* History kept with the last call of av_interleaved_write_frame: who made
   it, from which file, at which clock reading, what the muxer returned,
   whether the stream's previous pull found no file, the pts of the
   stream's previous packet, the number of bytes fread() stored in buf and
   the length of the file. *)
Submitted(p, kind, seq, clock, ret, retry, prev, copied, flen) ==
    [ op |-> p.op, flags |-> p.flags, stream_index |-> p.stream_index,
      data |-> p.data, size |-> p.size, pts |-> p.pts, dts |-> p.dts,
      kind |-> kind, seq |-> seq, clock |-> clock, ret |-> ret,
      retry |-> retry, prev |-> prev, copied |-> copied, flen |-> flen ]

(* line 329: `ret` is never assigned in write_video_frame; the test reads
   whatever the stack slot holds. *)
VideoRetValues == {-1, 0}

(* write_video_frame, lines 266-336, and line 420 *)
WriteVideoFrame ==
    /\ pc = "video"
    /\ vpolls' = vpolls + 1
    /\ LET ts == Elapsed(now, begin_timestamp_us)
           u  == Lookup(vstore, pts)
       IN  IF ~Opened(u)
           THEN /\ encode_video' = 0
                /\ pc' = "audio"
                /\ last' = [last EXCEPT !.video = [res |-> "exhausted", seq |-> pts]]
                /\ reported' = reported \cup {"video"}
                /\ pts' = AfterPull(pts, u)
                /\ UNCHANGED << status, sink, sent, lastpts, failed, vstore >>
           ELSE \E stale \in StaleBytes, wret \in {-1, 0}, ret \in VideoRetValues,
                   fate \in FreadOutcomes(u) :
                IF fate = "killed"
                THEN /\ Exit(Killed)
                     /\ UNCHANGED << sent, sink, lastpts, failed, pts, reported,
                                     vstore, last, encode_video >>
                ELSE
                /\ sent' = Submitted(WriteFrame(video_st,
                                        VideoPacket(u, stale, ts, video_st)),
                                    "video", pts, now, wret,
                                    last.video.res = "exhausted", lastpts.video,
                                    FreadCount(u), Len(u))
                /\ sink' = Append(sink, "packet")
                /\ lastpts' = [lastpts EXCEPT !.video = sent'.pts]
                /\ failed' = IF wret < 0 THEN failed \cup {"video"} ELSE failed
                /\ pts' = AfterPull(pts, u)
                /\ reported' = reported
                /\ vstore' = Consumed(vstore, pts)
                /\ last' = [last EXCEPT !.video = [res |-> "submitted", seq |-> pts]]
                /\ IF Fatal(ret)
                   THEN Exit(1) /\ encode_video' = encode_video
                   ELSE pc' = "audio" /\ status' = status /\ encode_video' = 1
    /\ UNCHANGED << nb_streams, video_st, audio_st, pb_open, begin_timestamp_us,
                    anchor_sets, encode_audio, audio_frame, now, astore, apolls >>

(* write_audio_frame, lines 206-260, and line 421 *)
WriteAudioFrame ==
    /\ pc = "audio"
    /\ apolls' = apolls + 1
    /\ LET u  == Lookup(astore, audio_frame)
           ts == Elapsed(now, begin_timestamp_us)
       IN  IF ~Opened(u)
           THEN /\ encode_audio' = 0
                /\ pc' = "usleep"
                /\ last' = [last EXCEPT !.audio = [res |-> "exhausted", seq |-> audio_frame]]
                /\ reported' = reported \cup {"audio"}
                /\ audio_frame' = AfterPull(audio_frame, u)
                /\ UNCHANGED << status, sink, sent, lastpts, failed, astore >>
           ELSE \E stale \in StaleBytes, ret \in {-1, 0},
                   fate \in FreadOutcomes(u) :
                IF fate = "killed"
                THEN /\ Exit(Killed)
                     /\ UNCHANGED << sent, sink, lastpts, failed, audio_frame,
                                     reported, astore, last, encode_audio >>
                ELSE
                /\ sent' = Submitted(WriteFrame(audio_st,
                                        AudioPacket(u, stale, ts, audio_st)),
                                    "audio", audio_frame, now, ret,
                                    last.audio.res = "exhausted", lastpts.audio,
                                    FreadCount(u), Len(u))
                /\ sink' = Append(sink, "packet")
                /\ lastpts' = [lastpts EXCEPT !.audio = sent'.pts]
                /\ failed' = IF ret < 0 THEN failed \cup {"audio"} ELSE failed
                /\ audio_frame' = AfterPull(audio_frame, u)
                /\ reported' = reported
                /\ astore' = Consumed(astore, audio_frame)
                /\ last' = [last EXCEPT !.audio = [res |-> "submitted", seq |-> audio_frame]]
                /\ IF Fatal(ret)
                   THEN Exit(1) /\ encode_audio' = encode_audio
                   ELSE pc' = "usleep" /\ status' = status /\ encode_audio' = 1
    /\ UNCHANGED << nb_streams, video_st, audio_st, pb_open, begin_timestamp_us,
                    anchor_sets, encode_video, pts, now, vstore, vpolls >>

(* line 422: usleep(1000); the clock moves by ClockAdvance *)
Usleep ==
    /\ pc = "usleep"
    /\ pc' = "loop"
    /\ UNCHANGED << status, nb_streams, video_st, audio_st, pb_open,
                    begin_timestamp_us, anchor_sets, encode_video, encode_audio,
                    pts, audio_frame, now, vstore, astore, sink, sent, lastpts,
                    failed, reported, vpolls, apolls, last >>

(* lines 425-438: av_write_trailer (result ignored), avio_close, return 0 *)
Finish ==
    /\ pc = "trailer"
    /\ \E ret \in {-1, 0} :
          /\ sink' = Append(sink, "trailer")
          /\ failed' = IF ret < 0 THEN failed \cup {"trailer"} ELSE failed
    /\ pb_open' = FALSE
    /\ Exit(0)
    /\ UNCHANGED << nb_streams, video_st, audio_st, begin_timestamp_us,
                    anchor_sets, encode_video, encode_audio, pts, audio_frame,
                    now, vstore, astore, sent, lastpts, reported, vpolls, apolls,
                    last >>

(* ---- the environment ---- *)

(* Another process writes the file avc_raw/avc_raw_<i>.h264.  The program
   can only look for the file its counter names, so a file written ahead of
   the counter is modelled as written when the counter has reached it. *)
AddVideoUnit ==
    /\ pc # "exit"
    /\ \E i \in Indices, u \in VideoUnits :
          /\ i = pts
          /\ i \notin DOMAIN vstore
          /\ vstore' = (i :> u) @@ vstore
    /\ UNCHANGED << progVars, now, astore >>

(* another process writes the file aac_raw/aac_raw_<i>.aac *)
AddAudioUnit ==
    /\ pc # "exit"
    /\ \E i \in Indices, u \in AudioUnits :
          /\ i = audio_frame
          /\ i \notin DOMAIN astore
          /\ astore' = (i :> u) @@ astore
    /\ UNCHANGED << progVars, now, vstore >>

(* wall-clock time passes; the clock does not go backward *)
ClockAdvance ==
    /\ pc # "exit"
    /\ now < MaxClock
    /\ now' = now + 1
    /\ UNCHANGED << progVars, vstore, astore >>

Next ==
    \/ CheckArgs
    \/ AllocContext
    \/ AddVideoStream
    \/ AddAudioStream
    \/ AvioOpen
    \/ WriteHeader
    \/ SetAnchor
    \/ LoopTest
    \/ WriteVideoFrame
    \/ WriteAudioFrame
    \/ Usleep
    \/ Finish
    \/ AddVideoUnit
    \/ AddAudioUnit
    \/ ClockAdvance

Spec == Init /\ [][Next]_vars


(* ---- what the claims speak of ---- *)

Packets == { i \in 1 .. Len(sink) : sink[i] = "packet" }
HeadersBefore(i) == { j \in 1 .. (i - 1) : sink[j] = "header" }
TrailersBefore(i) == { j \in 1 .. (i - 1) : sink[j] = "trailer" }
TrailersAfter(i) == { j \in (i + 1) .. Len(sink) : sink[j] = "trailer" }
Exited == pc = "exit"
IsPacket == sent.op = "packet"
VideoPull == vpolls' = vpolls + 1
AudioPull == apolls' = apolls + 1

(* C1: in every run exactly one header write precedes every packet
   submission, and once the process has exited exactly one trailer write
   follows every packet submission and the sink has been closed, also when
   the run ended because a submission failed. *)
C1_HeaderAndTrailerAroundPackets ==
    /\ \A i \in Packets :
          /\ Cardinality(HeadersBefore(i)) = 1
          /\ TrailersBefore(i) = {}
    /\ Exited =>
          /\ \A i \in Packets : Cardinality(TrailersAfter(i)) = 1
          /\ Packets # {} => ~pb_open

(* C2: once a submission of a video or an audio access unit has returned an
   error, the process has ended with a non-zero status, so nothing more is
   pulled or submitted. *)
C2_FailedSubmissionIsFatal ==
    (failed \cap {"video", "audio"} # {}) => (Exited /\ status > 0)

(* C3: for each stream, a pull that finds no file at the counter reports
   Exhausted (the stream's flag becomes 0), leaves the counter unchanged and
   submits nothing; and when the stream's previous pull was such a pull and
   a file now exists at that same counter, this pull submits exactly that
   file's bytes, read at that counter. *)
C3_ExhaustedThenRetry ==
    [][ /\ (VideoPull /\ pts \notin DOMAIN vstore) =>
              /\ pts' = pts /\ sink' = sink /\ sent' = sent
              /\ encode_video' = 0 /\ pc' = "audio"
        /\ (AudioPull /\ audio_frame \notin DOMAIN astore) =>
              /\ audio_frame' = audio_frame /\ sink' = sink /\ sent' = sent
              /\ encode_audio' = 0 /\ pc' = "usleep"
        /\ (VideoPull /\ last.video.res = "exhausted" /\ pts \in DOMAIN vstore) =>
              /\ pts = last.video.seq
              /\ sink' = Append(sink, "packet")
              /\ sent'.kind = "video" /\ sent'.seq = last.video.seq
              /\ sent'.data = vstore[pts] /\ sent'.size = Len(vstore[pts])
        /\ (AudioPull /\ last.audio.res = "exhausted"
                      /\ audio_frame \in DOMAIN astore) =>
              /\ audio_frame = last.audio.seq
              /\ sink' = Append(sink, "packet")
              /\ sent'.kind = "audio" /\ sent'.seq = last.audio.seq
              /\ sent'.data = astore[audio_frame]
              /\ sent'.size = Len(astore[audio_frame])
      ]_vars

(* a video file of some bytes was submitted by the pull that followed a
   pull finding no file at the same counter *)
C3_Witness ==
    /\ IsPacket /\ sent.kind = "video" /\ sent.retry /\ sent.size > 0
    /\ "video" \in reported

(* C4: for each stream, a pull of a file that exists but has zero length
   reports Exhausted, submits no packet and does not advance the counter. *)
C4_EmptyUnitIsExhausted ==
    [][ /\ (VideoPull /\ pts \in DOMAIN vstore /\ vstore[pts] = <<>>) =>
              /\ pts' = pts /\ sink' = sink /\ encode_video' = 0
        /\ (AudioPull /\ audio_frame \in DOMAIN astore
                      /\ astore[audio_frame] = <<>>) =>
              /\ audio_frame' = audio_frame /\ sink' = sink /\ encode_audio' = 0
      ]_vars

(* C5: a submitted video packet carries the key flag if and only if its
   payload has at least 5 bytes and (payload[4] & 0x0F) = 0x7. *)
C5_KeyFlagIffParameterSet ==
    (IsPacket /\ sent.kind = "video") =>
        ( (sent.flags = AV_PKT_FLAG_KEY)
          <=> (sent.size >= 5 /\ sent.data[5] % 16 = 7) )


(* C6: within each stream, the presentation timestamp of a submitted access
   unit is not smaller than that of the stream's previous submitted access
   unit (the wall clock of the model does not go backward). *)
C6_PtsMonotonicPerStream ==
    (IsPacket /\ sent.seq > 0) => sent.prev <= sent.pts

(* a stream's second packet, submitted at a later clock reading than its
   first *)
C6_Witness ==
    IsPacket /\ sent.seq > 0 /\ sent.prev < sent.pts

(* C7 as stated: once the video pull and the audio pull have each reported
   Exhausted, on whatever ticks, the loop test ends the loop. *)
C7_BothReportedEndsLoop ==
    (pc = "loop" /\ reported = {"video", "audio"})
        => ~LoopCond(encode_video, encode_audio)

(* C7 as amended: the loop test ends the loop, and goes to the trailer,
   exactly when the video pull and the audio pull of the tick just made
   both reported Exhausted; otherwise it polls the video stream again, also
   a stream that reported Exhausted on that or an earlier tick. *)
C7_LoopEndsWhenBothExhaustedInOneTick ==
    [][ (pc = "loop" /\ pc' # pc) =>
          /\ pc' = "trailer" <=> ( /\ last.video.res = "exhausted"
                                   /\ last.audio.res = "exhausted" )
          /\ pc' = "video" <=> ( \/ last.video.res # "exhausted"
                                 \/ last.audio.res # "exhausted" )
      ]_vars

(* the loop has ended on a tick of two Exhausted pulls, after a tick on
   which a packet was submitted *)
C7_Witness ==
    /\ pc = "trailer" /\ IsPacket
    /\ last.video.res = "exhausted" /\ last.audio.res = "exhausted"
    /\ vpolls >= 2

(* C8: if opening the sink or writing the header has failed, the process has
   ended with a non-zero status and no source was ever polled: no pull, no
   counter change, no packet. *)
C8_SetupFailureStopsBeforePolling ==
    (failed \cap {"open", "header"} # {}) =>
        /\ Exited /\ status > 0
        /\ vpolls = 0 /\ apolls = 0
        /\ pts = 0 /\ audio_frame = 0
        /\ Packets = {} /\ ~IsPacket

(* the header write failed on an opened sink *)
C8_Witness ==
    "header" \in failed /\ pb_open /\ Exited

(* C9: the anchor is assigned at most once, only after a successful header
   write and before any poll, and every submitted packet has pts = dts =
   the clock reading taken for it minus the anchor. *)
C9_AnchorSetOnceAndPtsEqualsDts ==
    /\ anchor_sets <= 1
    /\ anchor_sets = 0 =>
          /\ begin_timestamp_us = 0
          /\ vpolls = 0 /\ apolls = 0
          /\ pc \notin {"loop", "video", "audio", "usleep", "trailer"}
    /\ anchor_sets = 1 =>
          /\ sink # <<>> /\ sink[1] = "header" /\ "header" \notin failed
          /\ begin_timestamp_us >= StartClock
    /\ IsPacket =>
          /\ sent.pts = sent.dts
          /\ sent.pts = sent.clock - begin_timestamp_us

(* a packet stamped with a non-zero elapsed time, the anchor having been
   taken later than the process started *)
C9_Witness ==
    IsPacket /\ sent.pts > 0 /\ begin_timestamp_us > StartClock

(* C10: the video stream is registered with index 0 and the audio stream
   with index 1, in that order; an index once assigned keeps its value; and
   every submitted packet carries the index of its own stream. *)
C10_StreamIndices ==
    /\ video_st \in {-1, 0}
    /\ audio_st \in {-1, 1}
    /\ audio_st = 1 => video_st = 0
    /\ pc \notin {"main", "alloc", "add_video", "add_audio", "exit"} =>
          /\ video_st = 0 /\ audio_st = 1 /\ nb_streams = 2
    /\ IsPacket =>
          /\ video_st = 0 /\ audio_st = 1
          /\ sent.stream_index = IF sent.kind = "video" THEN 0 ELSE 1

(* an audio packet was submitted with index 1 after a video packet *)
C10_Witness ==
    /\ IsPacket /\ sent.kind = "audio" /\ sent.stream_index = 1
    /\ pts > 0

(* C11: every audio access unit is handed to the muxer marked as a
   random-access point (the key flag set), whatever its payload bytes; the
   classification by payload byte is made for video only. *)
C11_AudioAlwaysKey ==
    (IsPacket /\ sent.kind = "audio") => sent.flags = AV_PKT_FLAG_KEY

(* ---- runs on directories that nobody writes to ---- *)

(* the directories a run may start on: any files at any of the indices *)
StaticStores(units) == UNION { [S -> units] : S \in SUBSET Indices }

InitStatic ==
    /\ ProcessStart
    /\ vstore \in StaticStores(VideoUnits)
    /\ astore \in StaticStores(AudioUnits)

(* the steps of the process and of the clock on which no library call
   returns an error; no file is added *)
NoFailure == failed' = {}

NextStatic ==
    \/ CheckArgs /\ NoFailure
    \/ AllocContext /\ NoFailure
    \/ AddVideoStream /\ NoFailure
    \/ AddAudioStream /\ NoFailure
    \/ AvioOpen /\ NoFailure
    \/ WriteHeader /\ NoFailure
    \/ SetAnchor /\ NoFailure
    \/ LoopTest /\ NoFailure
    \/ WriteVideoFrame /\ NoFailure
    \/ WriteAudioFrame /\ NoFailure
    \/ Usleep /\ NoFailure
    \/ Finish /\ NoFailure
    \/ ClockAdvance /\ NoFailure

SpecStatic == InitStatic /\ [][NextStatic]_vars

(* C12: on directories that nobody writes to and with no failing library
   call, a process that entered the poll loop ends through the trailer with
   status 0, and then each counter stands at the first index with no file:
   each stream submitted exactly the files before it. *)
C12_StaticRunEndsThroughTrailer ==
    (Exited /\ anchor_sets = 1) =>
        /\ status = 0
        /\ sink[Len(sink)] = "trailer" /\ ~pb_open
        /\ pts \notin DOMAIN vstore
        /\ audio_frame \notin DOMAIN astore
        /\ Cardinality(Packets) = pts + audio_frame

(* C13: each stream's counter never decreases; it moves, by exactly one, on
   the steps that submit a packet of that stream and on no other step; and
   the packet submitted is the one read at the counter's value before the
   step.  So a stream's packets carry the counter values 0, 1, 2, ... in
   order, none twice and none skipped. *)
C13_CounterStepsWithSubmissions ==
    [][ /\ pts' = pts \/ pts' = pts + 1
        /\ audio_frame' = audio_frame \/ audio_frame' = audio_frame + 1
        /\ (pts' = pts + 1) <=>
              ( /\ VideoPull /\ pts \in DOMAIN vstore
                /\ sink' = Append(sink, "packet")
                /\ sent'.kind = "video" /\ sent'.seq = pts )
        /\ (audio_frame' = audio_frame + 1) <=>
              ( /\ AudioPull /\ audio_frame \in DOMAIN astore
                /\ sink' = Append(sink, "packet")
                /\ sent'.kind = "audio" /\ sent'.seq = audio_frame )
        /\ (sink' # sink /\ sent' # sent) =>
              \/ sent'.kind = "video" /\ pts' = pts + 1
              \/ sent'.kind = "audio" /\ audio_frame' = audio_frame + 1
      ]_vars

(* each stream has submitted its second file, the audio stream after a pull
   that found none *)
C13_Witness ==
    /\ IsPacket /\ sent.seq = 1
    /\ pts = 2 /\ audio_frame = 2
    /\ "audio" \in reported

(* C14: while the loop runs, a tick is one video pull followed by one audio
   pull, whatever the streams reported on earlier ticks: the program leaves
   "video" only by a video pull made with as many audio pulls as video pulls
   behind it, and leaves "audio" only by an audio pull that evens the two
   counts; a stream that reported Exhausted earlier and now has a file at
   its counter submits it on this tick's pull; and the loop goes to the
   trailer only from a tick whose two pulls both reported Exhausted. *)
C14_EveryTickPollsBoth ==
    [][ /\ (pc = "loop" /\ pc' # pc) => pc' \in {"video", "trailer"}
        /\ (pc = "video" /\ pc' # pc) =>
              /\ VideoPull /\ vpolls = apolls
              /\ pc' \in {"audio", "exit"}
        /\ (pc = "audio" /\ pc' # pc) =>
              /\ AudioPull /\ vpolls = apolls + 1
              /\ pc' \in {"usleep", "exit"}
        /\ (pc = "usleep" /\ pc' # pc) => pc' = "loop" /\ vpolls = apolls
        /\ VideoPull => pc = "video"
        /\ AudioPull => pc = "audio"
        /\ (VideoPull /\ "video" \in reported /\ pts \in DOMAIN vstore) =>
              /\ sink' = Append(sink, "packet")
              /\ sent'.kind = "video" /\ sent'.data = vstore[pts]
        /\ (AudioPull /\ "audio" \in reported /\ audio_frame \in DOMAIN astore) =>
              /\ sink' = Append(sink, "packet")
              /\ sent'.kind = "audio" /\ sent'.data = astore[audio_frame]
        /\ (pc' = "trailer" /\ pc # "trailer") =>
              /\ last.video.res = "exhausted" /\ last.audio.res = "exhausted"
              /\ last.video.seq = pts /\ last.audio.seq = audio_frame
              /\ vpolls = apolls
      ]_vars

(* the audio stream, Exhausted on an earlier tick while video went on
   producing, has submitted the file that appeared at its counter *)
C14_Witness ==
    /\ IsPacket /\ sent.kind = "audio" /\ sent.retry
    /\ pts >= 1 /\ vpolls >= 2 /\ pc = "usleep"

(* C15: packets reach av_interleaved_write_frame in non-decreasing order of
   timestamp across the two streams: a packet's pts is never smaller than
   the pts of the packet submitted before it, of whichever stream; in
   particular the audio packet of a tick is not stamped earlier than the
   video packet of that tick. *)
C15_PtsMonotonicAcrossStreams ==
    [][ (IsPacket /\ sink' = Append(sink, "packet")) =>
          /\ sent.pts <= sent'.pts
          /\ sent.pts >= lastpts.video /\ sent.pts >= lastpts.audio
          /\ (sent'.kind = "audio" /\ last.video.res = "submitted") =>
                lastpts.video <= sent'.pts
      ]_vars

(* an audio packet stamped later than the video packet of the same tick *)
C15_Witness ==
    /\ IsPacket /\ sent.kind = "audio" /\ pc = "usleep"
    /\ last.video.res = "submitted"
    /\ lastpts.video > 0 /\ lastpts.video < sent.pts

(* ---- runs on directories that hold a file larger than the buffer ---- *)

(* a file one byte longer than buf *)
OversizeUnit == [i \in 1 .. (BufSize + 1) |-> 0]

(* the files such a directory may hold: one that fits and the long one *)
BigVideoUnits == { <<0, 0, 0, 1, 103>>, OversizeUnit }
BigAudioUnits == { <<255, 241>>, OversizeUnit }

InitBig ==
    /\ ProcessStart
    /\ vstore \in StaticStores(BigVideoUnits)
    /\ astore \in StaticStores(BigAudioUnits)

SpecBig == InitBig /\ [][NextStatic]_vars

(* C16: for every file read from either directory, the number of bytes
   copied into the read buffer is at most the buffer's 51200 bytes, and the
   size of the packet submitted equals the file's length. *)
C16_ReadFitsBuffer ==
    IsPacket => (sent.copied <= BufSize /\ sent.size = sent.flen)

====
